---- MODULE Spec2Model ----
(***************************************************************************)
(* The order book of src/orderbook/orderbook.go as a state machine.        *)
(*                                                                         *)
(* Pointers are modelled by the thing that identifies the object:          *)
(*   *Order  -> the index of the object in the heap `order`                *)
(*   *Limit  -> the price of the level, within the heap of its side        *)
(* float64 sizes and prices are small integers (exact in float64).         *)
(* Callers follow the lifecycle of the repository's server and tests: an   *)
(* order is built by NewOrder and handed to one placement call; sizes of   *)
(* limit orders are positive (client.PlaceLimitOrder rejects 0) and ids    *)
(* are unique among the orders alive.                                      *)
(*                                                                         *)
(* Spec            one caller, every call a single step                    *)
(* SpecAnySize     the same, limit sizes not checked by any caller         *)
(* SpecLimit       one Limit driven through AddOrder / DeleteOrder         *)
(* SpecViews       Spec with Asks() / Bids() called between the calls      *)
(* SpecIds         Spec with the ids of limit orders drawn as rand draws   *)
(* SpecPlacements  goroutines placing orders, calls split at ob.mu.Lock()  *)
(* SpecCancelling  placing goroutines and one calling CancelOrder          *)
(* SpecQuerying    placing goroutines and one calling AskTotalVolume/Asks  *)
(***************************************************************************)
EXTENDS Integers, Sequences, FiniteSets, TLC

\* ------------------------------------------------------------- bounds
MaxOrders == 3
MaxPrice == 2
MaxSize == 2
MaxTime == 1
MaxThreads == 2
MaxIds == 2

Prices == 1..MaxPrice
Sizes == 1..MaxSize
MarketSizes == 0..(MaxSize + 1)
Times == 0..MaxTime
Threads == 1..MaxThreads
Nil == 0

VARIABLES
    order,      \* heap of Order objects: Seq of [ID, Size, Bid, Limit, Timestamp]
    limit,      \* heap of Limit objects: [BOOLEAN -> [Prices -> [Price, Orders, TotalVolume]]]
    asks,       \* Orderbook.asks: Seq of *Limit
    bids,       \* Orderbook.bids: Seq of *Limit
    AskLimits,  \* Orderbook.AskLimits: price -> *Limit
    BidLimits,  \* Orderbook.BidLimits: price -> *Limit
    Orders,     \* Orderbook.Orders: id -> *Order
    Trades,     \* Orderbook.Trades: Seq of [Price, Size, Bid]
    matches,    \* the []Match returned by the last PlaceMarketOrder
    call,       \* the last call and how it ended: [op, o, err]
    mu,         \* Orderbook.mu: the goroutine that holds the lock, or Nil
    pc,         \* where each goroutine stands in the call it is making
    loc         \* the local variables of each goroutine's call

\* the order book and its objects
book == <<order, limit, asks, bids, AskLimits, BidLimits, Orders, Trades>>

\* the goroutines that call into the order book at the same time
cvars == <<mu, pc, loc>>

vars == <<order, limit, asks, bids, AskLimits, BidLimits, Orders, Trades, matches, call,
          mu, pc, loc>>

\* ------------------------------------------------------------ helpers
Range(s) == {s[i] : i \in 1..Len(s)}

\* s[1..n] with s[i] replaced by v
SetAt(s, i, v) == [s EXCEPT ![i] = v]

\* the map m without key k (Go's delete(m, k))
MapDelete(m, k) == [x \in (DOMAIN m) \ {k} |-> m[x]]

\* the map m with m[k] = v
MapPut(m, k, v) == [x \in (DOMAIN m) \cup {k} |-> IF x = k THEN v ELSE m[x]]

\* ------------------------------------------------------------- Order
NewOrder(bid, size, id, ts) ==
    [ID |-> id, Size |-> size, Bid |-> bid, Limit |-> Nil, Timestamp |-> ts]

IsFilled(o) == o.Size = 0

\* Orders.Less
OrdersLess(ord, a, b) == ord[a].Timestamp < ord[b].Timestamp

\* sort.Sort(l.Orders): not stable, so among orders whose timestamps tie any
\* arrangement may come out
Arrangements(s) ==
    {[i \in 1..Len(s) |-> s[p[i]]] :
        p \in {q \in [1..Len(s) -> 1..Len(s)] :
                 \A i, j \in 1..Len(s) : i # j => q[i] # q[j]}}

SortOrders(s, ord) ==
    {p \in Arrangements(s) :
        \A i \in 1..(Len(p) - 1) : ~OrdersLess(ord, p[i + 1], p[i])}

\* ------------------------------------------------------------- Limit
NewLimit(price) == [Price |-> price, Orders |-> <<>>, TotalVolume |-> 0]

\* ByBestAsk.Less / ByBestBid.Less on level pointers
ByBestAskLess(a, b) == a < b
ByBestBidLess(a, b) == a > b

RECURSIVE InsertLimit(_, _, _)
InsertLimit(s, p, bid) ==
    IF s = <<>> THEN <<p>>
    ELSE IF (IF bid THEN ByBestBidLess(p, Head(s)) ELSE ByBestAskLess(p, Head(s)))
         THEN <<p>> \o s
         ELSE <<Head(s)>> \o InsertLimit(Tail(s), p, bid)

RECURSIVE SortLimits(_, _)
SortLimits(s, bid) ==
    IF s = <<>> THEN <<>>
    ELSE InsertLimit(SortLimits(SubSeq(s, 1, Len(s) - 1), bid), s[Len(s)], bid)

\* AddOrder that puts the order at the head of the level's sequence
AddOrder_Front(l, o, ord) ==
    [limit |-> [l EXCEPT !.Orders = <<o>> \o @,
                         !.TotalVolume = @ + ord[o].Size],
     order |-> [ord EXCEPT ![o].Limit = l.Price]]

\* Limit.AddOrder: the level and the order heap after l.AddOrder(o)
AddOrder(l, o, ord) ==
    [limit |-> [l EXCEPT !.Orders = Append(@, o),
                         !.TotalVolume = @ + ord[o].Size],
     order |-> [ord EXCEPT ![o].Limit = l.Price]]

\* the loop of Limit.DeleteOrder: swap with the last element and shrink
RECURSIVE DeleteLoop(_, _, _)
DeleteLoop(s, o, i) ==
    IF i > Len(s) THEN s
    ELSE IF s[i] = o
         THEN DeleteLoop(SubSeq(SetAt(s, i, s[Len(s)]), 1, Len(s) - 1), o, i + 1)
         ELSE DeleteLoop(s, o, i + 1)

\* DeleteOrder that leaves the level's TotalVolume as it was
DeleteOrder_KeepsVolume(l, o, ord) ==
    {[limit |-> [l EXCEPT !.Orders = s],
      order |-> [ord EXCEPT ![o].Limit = Nil]]
        : s \in SortOrders(DeleteLoop(l.Orders, o, 1), ord)}

\* Limit.DeleteOrder: the possible results (the sort is not stable)
DeleteOrder(l, o, ord) ==
    {[limit |-> [l EXCEPT !.Orders = s, !.TotalVolume = @ - ord[o].Size],
      order |-> [ord EXCEPT ![o].Limit = Nil]]
        : s \in SortOrders(DeleteLoop(l.Orders, o, 1), ord)}

\* fillOrder that reports the resident order's whole size as filled
fillOrder_FillsResident(l, a, b, ord) ==
    LET bid == IF ord[a].Bid THEN a ELSE b
        ask == IF ord[a].Bid THEN b ELSE a
    IN [match |-> [Bid |-> bid, Ask |-> ask, SizeFilled |-> ord[a].Size, Price |-> l.Price],
        order |-> IF ord[a].Size >= ord[b].Size
                  THEN [ord EXCEPT ![a].Size = ord[a].Size - ord[b].Size, ![b].Size = 0]
                  ELSE [ord EXCEPT ![b].Size = ord[b].Size - ord[a].Size, ![a].Size = 0]]

\* fillOrder that puts the filled size where the level's price belongs
fillOrder_SizeAsPrice(l, a, b, ord) ==
    LET bid == IF ord[a].Bid THEN a ELSE b
        ask == IF ord[a].Bid THEN b ELSE a
        sizeFilled == IF ord[a].Size >= ord[b].Size THEN ord[b].Size ELSE ord[a].Size
    IN [match |-> [Bid |-> bid, Ask |-> ask, SizeFilled |-> sizeFilled, Price |-> sizeFilled],
        order |-> IF ord[a].Size >= ord[b].Size
                  THEN [ord EXCEPT ![a].Size = ord[a].Size - ord[b].Size, ![b].Size = 0]
                  ELSE [ord EXCEPT ![b].Size = ord[b].Size - ord[a].Size, ![a].Size = 0]]

\* Limit.fillOrder(a, b): a is the resident order, b the incoming one
fillOrder(l, a, b, ord) ==
    LET bid == IF ord[a].Bid THEN a ELSE b
        ask == IF ord[a].Bid THEN b ELSE a
        sizeFilled == IF ord[a].Size >= ord[b].Size THEN ord[b].Size ELSE ord[a].Size
    IN [match |-> [Bid |-> bid, Ask |-> ask, SizeFilled |-> sizeFilled, Price |-> l.Price],
        order |-> IF ord[a].Size >= ord[b].Size
                  THEN [ord EXCEPT ![a].Size = ord[a].Size - ord[b].Size, ![b].Size = 0]
                  ELSE [ord EXCEPT ![b].Size = ord[b].Size - ord[a].Size, ![a].Size = 0]]

\* a first loop of Limit.Fill that goes on after the incoming order is filled
RECURSIVE FillScan_NoBreak(_, _, _, _)
FillScan_NoBreak(l, o, i, st) ==
    IF i > Len(l.Orders) THEN st
    ELSE LET f == fillOrder(l, l.Orders[i], o, st.order)
         IN FillScan_NoBreak(l, o, i + 1,
                [order |-> f.order,
                 TotalVolume |-> st.TotalVolume - f.match.SizeFilled,
                 matches |-> Append(st.matches, f.match),
                 ordersToDelete |->
                     IF IsFilled(f.order[l.Orders[i]])
                     THEN Append(st.ordersToDelete, l.Orders[i])
                     ELSE st.ordersToDelete])

\* the first loop of Limit.Fill, over the orders the level holds on entry
\* st = [order, TotalVolume, matches, ordersToDelete]
RECURSIVE FillScan(_, _, _, _)
FillScan(l, o, i, st) ==
    IF i > Len(l.Orders) \/ IsFilled(st.order[o]) THEN st
    ELSE LET f == fillOrder(l, l.Orders[i], o, st.order)
         IN FillScan(l, o, i + 1,
                [order |-> f.order,
                 TotalVolume |-> st.TotalVolume - f.match.SizeFilled,
                 matches |-> Append(st.matches, f.match),
                 ordersToDelete |->
                     IF IsFilled(f.order[l.Orders[i]])
                     THEN Append(st.ordersToDelete, l.Orders[i])
                     ELSE st.ordersToDelete])

\* a second loop of Limit.Fill that deletes nothing
DeleteAll_None(states, del) == states

\* the second loop of Limit.Fill: DeleteOrder on each filled order
RECURSIVE DeleteAll(_, _)
DeleteAll(states, del) ==
    IF del = <<>> THEN states
    ELSE DeleteAll(UNION {DeleteOrder(s.limit, Head(del), s.order) : s \in states},
                   Tail(del))

\* Fill that never lowers the level's TotalVolume by what was matched
Fill_KeepsVolume(l, o, ord) ==
    LET st == FillScan(l, o, 1, [order |-> ord, TotalVolume |-> l.TotalVolume,
                                 matches |-> <<>>, ordersToDelete |-> <<>>])
        after == DeleteAll({[limit |-> l, order |-> st.order]}, st.ordersToDelete)
    IN {[limit |-> s.limit, order |-> s.order, matches |-> st.matches] : s \in after}

\* Limit.Fill: the possible [limit, order, matches] after l.Fill(o)
Fill(l, o, ord) ==
    LET st == FillScan(l, o, 1, [order |-> ord, TotalVolume |-> l.TotalVolume,
                                 matches |-> <<>>, ordersToDelete |-> <<>>])
        after == DeleteAll({[limit |-> [l EXCEPT !.TotalVolume = st.TotalVolume],
                             order |-> st.order]},
                           st.ordersToDelete)
    IN {[limit |-> s.limit, order |-> s.order, matches |-> st.matches] : s \in after}

\* --------------------------------------------------------- Orderbook
\* ob = [asks, asksLen, bids, bidsLen, AskLimits, BidLimits]: a slice is its
\* backing array and its length; a shrunk slice leaves the array's tail as it was
Slice(arr, n) == SubSeq(arr, 1, n)

\* the loop of clearLimit: len(ob.bids) is read anew on every round
RECURSIVE clearLoop(_, _, _, _)
clearLoop(arr, n, l, i) ==
    IF i > n THEN [arr |-> arr, len |-> n]
    ELSE IF arr[i] = l
         THEN clearLoop(SetAt(arr, i, arr[n]), n - 1, l, i + 1)
         ELSE clearLoop(arr, n, l, i + 1)

\* clearLimit that drops the level from the price map and leaves it in the slice
clearLimit_MapOnly(bid, l, ob) ==
    IF bid THEN [ob EXCEPT !.BidLimits = MapDelete(@, l)]
           ELSE [ob EXCEPT !.AskLimits = MapDelete(@, l)]

\* Orderbook.clearLimit(bid, l)
clearLimit(bid, l, ob) ==
    IF bid
    THEN LET r == clearLoop(ob.bids, ob.bidsLen, l, 1)
         IN [ob EXCEPT !.BidLimits = MapDelete(@, l), !.bids = r.arr, !.bidsLen = r.len]
    ELSE LET r == clearLoop(ob.asks, ob.asksLen, l, 1)
         IN [ob EXCEPT !.AskLimits = MapDelete(@, l), !.asks = r.arr, !.asksLen = r.len]

\* Orderbook.BidTotalVolume / Orderbook.AskTotalVolume over a side's slice
RECURSIVE TotalVolumeLoop(_, _, _)
TotalVolumeLoop(levels, heap, i) ==
    IF i > Len(levels) THEN 0
    ELSE heap[levels[i]].TotalVolume + TotalVolumeLoop(levels, heap, i + 1)

BidTotalVolume == TotalVolumeLoop(bids, limit[TRUE], 1)
AskTotalVolume == TotalVolumeLoop(asks, limit[FALSE], 1)

\* Asks that sorts with the comparison of the bids
Asks_Descending(levels) == SortLimits(levels, TRUE)

\* Bids that sorts with the comparison of the asks
Bids_Ascending(levels) == SortLimits(levels, FALSE)

\* Orderbook.Asks / Orderbook.Bids: sort the side's slice in place, return it
Asks(levels) == SortLimits(levels, FALSE)
Bids(levels) == SortLimits(levels, TRUE)

\* the range loop of PlaceMarketOrder over the slice Asks()/Bids() returned:
\* round i reads element i of the backing array, which clearLimit may have
\* rewritten.  s = [ob, limit, order, matches]; side = the resting side
RECURSIVE Sweep(_, _, _, _, _)
Sweep(s, i, n, o, side) ==
    IF i > n THEN {s}
    ELSE LET l == IF side THEN s.ob.bids[i] ELSE s.ob.asks[i]
         IN UNION {
              LET s2 == [s EXCEPT !.limit[side][l] = f.limit,
                                  !.order = f.order,
                                  !.matches = @ \o f.matches]
                  s3 == IF Len(f.limit.Orders) = 0
                        THEN [s2 EXCEPT !.ob = clearLimit(side, l, @)]
                        ELSE s2
              IN Sweep(s3, i + 1, n, o, side)
              : f \in Fill(s.limit[side][l], o, s.order)}

\* trades that record the resting order's side instead of the taker's
TradesOf_MakerSide(ms, bid) ==
    [i \in 1..Len(ms) |->
        [Price |-> ms[i].Price, Size |-> ms[i].SizeFilled, Bid |-> ~bid]]

\* trades that record only the first match of the call
TradesOf_First(ms, bid) ==
    IF ms = <<>> THEN <<>>
    ELSE <<[Price |-> Head(ms).Price, Size |-> Head(ms).SizeFilled, Bid |-> bid]>>

\* the Trades PlaceMarketOrder appends for its matches
RECURSIVE TradesOf(_, _)
TradesOf(ms, bid) ==
    IF ms = <<>> THEN <<>>
    ELSE <<[Price |-> Head(ms).Price, Size |-> Head(ms).SizeFilled, Bid |-> bid]>>
         \o TradesOf(Tail(ms), bid)

\* an append that keeps only the trades of the call at hand
AppendTrades_Replace(trades, new) == new

\* ob.Trades = append(ob.Trades, trade), for the trades of one call
AppendTrades(trades, new) == trades \o new

\* a liquidity check that lets through an order one unit too large
NotEnoughVolume_OffByOne(size, volume) == size > volume + 1

\* the liquidity check of PlaceMarketOrder: o.Size > ob.AskTotalVolume()
NotEnoughVolume(size, volume) == size > volume

Ob == [asks |-> asks, asksLen |-> Len(asks), bids |-> bids, bidsLen |-> Len(bids),
       AskLimits |-> AskLimits, BidLimits |-> BidLimits]

Call(op, o, err) == [op |-> op, o |-> o, err |-> err]

\* the locals of a goroutine that is in no call
NoLocals ==
    [o |-> Nil, bid |-> FALSE, size |-> 0, ts |-> 0, limit |-> Nil,
     n |-> 0, total |-> 0, ok |-> {}, strict |-> FALSE]

\* ------------------------------------------------------------ actions
\* NewOrderbook
Init ==
    /\ order = <<>>
    /\ limit = [b \in BOOLEAN |-> [p \in Prices |-> NewLimit(p)]]
    /\ asks = <<>>
    /\ bids = <<>>
    /\ AskLimits = <<>>
    /\ BidLimits = <<>>
    /\ Orders = <<>>
    /\ Trades = <<>>
    /\ matches = <<>>
    /\ call = Call("NewOrderbook", Nil, "")
    /\ mu = Nil
    /\ pc = [t \in Threads |-> "idle"]
    /\ loc = [t \in Threads |-> NoLocals]

\* a caller builds an order, NewOrder(bid, size, userID), and hands it to the
\* one placement call that follows.  ts is what time.Now().UnixNano() gave
\* when the order was built, which may be before or after (or, on a coarse
\* clock, the same as) the moment any other order was built
Built(bid, size, ts) == Append(order, NewOrder(bid, size, Len(order) + 1, ts))

\* a side choice that takes the book of the other side
LimitSide_Swapped(o) == ~o.Bid

\* the side whose price map PlaceLimitOrder looks the level up in: if o.Bid
LimitSide(o) == o.Bid

\* Orderbook.PlaceLimitOrder(price, o): ord is the heap with the newly built
\* order o as its last object
PlaceLimitBuilt(price, ord) ==
    /\ Len(order) < MaxOrders
    /\ LET o == Len(order) + 1
           side == LimitSide(ord[o])
           found == IF side THEN price \in DOMAIN BidLimits
                            ELSE price \in DOMAIN AskLimits
           l == IF found THEN limit[side][price] ELSE NewLimit(price)
           a == AddOrder(l, o, ord)
       IN /\ bids' = IF side /\ ~found THEN Append(bids, price) ELSE bids
          /\ BidLimits' = IF side /\ ~found THEN MapPut(BidLimits, price, price)
                                            ELSE BidLimits
          /\ asks' = IF ~side /\ ~found THEN Append(asks, price) ELSE asks
          /\ AskLimits' = IF ~side /\ ~found THEN MapPut(AskLimits, price, price)
                                             ELSE AskLimits
          /\ Orders' = MapPut(Orders, ord[o].ID, o)
          /\ limit' = [limit EXCEPT ![side][price] = a.limit]
          /\ order' = a.order
          /\ call' = Call("PlaceLimitOrder", o, "")
    /\ matches' = <<>>
    /\ UNCHANGED Trades
    /\ UNCHANGED cvars

\* Orderbook.PlaceLimitOrder(price, o), o a newly built order
PlaceLimitOrder(price, bid, size, ts) == PlaceLimitBuilt(price, Built(bid, size, ts))

\* Orderbook.PlaceMarketOrder(o), o a newly built order
PlaceMarketOrder(bid, size, ts) ==
    /\ Len(order) < MaxOrders
    /\ UNCHANGED cvars
    /\ LET o == Len(order) + 1
           ord == Built(bid, size, ts)
           side == ~bid
           volume == IF bid THEN AskTotalVolume ELSE BidTotalVolume
       IN IF NotEnoughVolume(ord[o].Size, volume)
          THEN \* panic(fmt.Errorf("not enough volume ..."))
               /\ order' = ord
               /\ call' = Call("PlaceMarketOrder", o, "not enough volume")
               /\ matches' = <<>>
               /\ UNCHANGED <<limit, asks, bids, AskLimits, BidLimits, Orders, Trades>>
          ELSE LET sorted == IF bid THEN [Ob EXCEPT !.asks = Asks(asks)]
                                    ELSE [Ob EXCEPT !.bids = Bids(bids)]
                   n == IF bid THEN Len(asks) ELSE Len(bids)
               IN \E s \in Sweep([ob |-> sorted, limit |-> limit, order |-> ord,
                                  matches |-> <<>>], 1, n, o, side) :
                     /\ order' = s.order
                     /\ limit' = s.limit
                     /\ asks' = Slice(s.ob.asks, s.ob.asksLen)
                     /\ bids' = Slice(s.ob.bids, s.ob.bidsLen)
                     /\ AskLimits' = s.ob.AskLimits
                     /\ BidLimits' = s.ob.BidLimits
                     /\ Trades' = AppendTrades(Trades, TradesOf(s.matches, bid))
                     /\ UNCHANGED Orders
                     /\ IF Len(Trades') = 0
                        THEN \* ob.Trades[len(ob.Trades)-1] on an empty slice
                             /\ call' = Call("PlaceMarketOrder", o, "index out of range")
                             /\ matches' = <<>>
                        ELSE /\ call' = Call("PlaceMarketOrder", o, "")
                             /\ matches' = s.matches

\* Orderbook.CancelOrder(o)
CancelOrder(o) ==
    /\ matches' = <<>>
    /\ UNCHANGED Trades
    /\ UNCHANGED cvars
    /\ IF order[o].Limit = Nil
       THEN \* limit is nil: l.Orders in DeleteOrder dereferences it
            /\ call' = Call("CancelOrder", o, "nil pointer dereference")
            /\ UNCHANGED <<order, limit, asks, bids, AskLimits, BidLimits, Orders>>
       ELSE LET bid == order[o].Bid
                l == order[o].Limit
            IN \E d \in DeleteOrder(limit[bid][l], o, order) :
                  LET ob == IF Len(d.limit.Orders) = 0
                            THEN clearLimit(bid, l, Ob) ELSE Ob
                  IN /\ order' = d.order
                     /\ limit' = [limit EXCEPT ![bid][l] = d.limit]
                     /\ Orders' = MapDelete(Orders, order[o].ID)
                     /\ asks' = Slice(ob.asks, ob.asksLen)
                     /\ bids' = Slice(ob.bids, ob.bidsLen)
                     /\ AskLimits' = ob.AskLimits
                     /\ BidLimits' = ob.BidLimits
                     /\ call' = Call("CancelOrder", o, "")

Next ==
    \/ \E price \in Prices, bid \in BOOLEAN, size \in Sizes, ts \in Times :
          PlaceLimitOrder(price, bid, size, ts)
    \/ \E bid \in BOOLEAN, size \in MarketSizes, ts \in Times :
          PlaceMarketOrder(bid, size, ts)
    \/ \E o \in 1..Len(order) : CancelOrder(o)

Spec == Init /\ [][Next]_vars

\* ----------------------------------------------------- reading a state
\* the levels a side's price map or level collection leads to
LevelsOf(bid) ==
    IF bid THEN {BidLimits[p] : p \in DOMAIN BidLimits} \cup Range(bids)
           ELSE {AskLimits[p] : p \in DOMAIN AskLimits} \cup Range(asks)

\* the sum of the remaining sizes of the orders in s
RECURSIVE SizesOf(_)
SizesOf(s) == IF s = <<>> THEN 0 ELSE order[Head(s)].Size + SizesOf(Tail(s))

\* the sum of the remaining sizes of the orders resident in the levels ps
RECURSIVE ResidentVolume(_, _)
ResidentVolume(bid, ps) ==
    IF ps = {} THEN 0
    ELSE LET p == CHOOSE x \in ps : TRUE
         IN SizesOf(limit[bid][p].Orders) + ResidentVolume(bid, ps \ {p})

\* the places (side, level, position) at which order o is resident
Residences(o) ==
    {x \in BOOLEAN \X Prices \X (1..MaxOrders) :
        /\ x[2] \in LevelsOf(x[1])
        /\ x[3] <= Len(limit[x[1]][x[2]].Orders)
        /\ limit[x[1]][x[2]].Orders[x[3]] = o}

Indexed(o) == \E id \in DOMAIN Orders : Orders[id] = o

MarketDone == call.op = "PlaceMarketOrder" /\ call.err = ""

\* the resting order of a match made for taker t
Maker(m, t) == IF m.Bid = t THEN m.Ask ELSE m.Bid

\* ------------------------------------------------------------- claims
\* C1: on each side the reported total volume is the sum of the remaining
\* sizes of the orders resident in that side's levels, and every level's
\* cached TotalVolume is the sum of the remaining sizes of its own orders.
C1_VolumeConservation ==
    /\ BidTotalVolume = ResidentVolume(TRUE, {BidLimits[p] : p \in DOMAIN BidLimits})
    /\ AskTotalVolume = ResidentVolume(FALSE, {AskLimits[p] : p \in DOMAIN AskLimits})
    /\ \A b \in BOOLEAN : \A p \in LevelsOf(b) :
          limit[b][p].TotalVolume = SizesOf(limit[b][p].Orders)

\* a cancellation after a trade that leaves volume on the book
C1_Witness ==
    /\ call.op = "CancelOrder" /\ call.err = ""
    /\ Trades # <<>>
    /\ BidTotalVolume + AskTotalVolume > 0

\* C2: an order is in the id index if and only if it is resident in exactly
\* one price level, and that level is on the side of the order's Bid flag.
C2_NoOrphanNoDoubleIndex ==
    \A o \in 1..Len(order) :
        Indexed(o) <=> /\ Cardinality(Residences(o)) = 1
                       /\ \A x \in Residences(o) : x[1] = order[o].Bid

\* C3: every level a side's price map or level collection leads to holds at
\* least one order.
C3_NoEmptyLevel ==
    \A b \in BOOLEAN : \A p \in LevelsOf(b) : Len(limit[b][p].Orders) >= 1

\* a market order emptied one level by a full match and left another standing
C3_Witness ==
    /\ MarketDone
    /\ \E i \in 1..Len(matches) :
          /\ order[Maker(matches[i], call.o)].Limit = Nil
          /\ matches[i].Price \notin LevelsOf(~order[call.o].Bid)
    /\ LevelsOf(~order[call.o].Bid) # {}

\* orders are built and placed in one step, so an order's place in the heap
\* is also its rank in the order of arrival at the book
Arrival(o) == o

\* C4: a market order consumes the orders of a level in ascending order of
\* creation time, and no order that arrived later at the level is filled
\* while one that arrived earlier still has remaining volume.
C4_TimePriority ==
    MarketDone =>
        LET t == call.o
            side == ~order[t].Bid
        IN \A i \in 1..Len(matches) :
              LET r == Maker(matches[i], t)
                  p == matches[i].Price
                  later == {Maker(matches[j], t) :
                              j \in {k \in (i + 1)..Len(matches) : matches[k].Price = p}}
                  left == IF p \in LevelsOf(side)
                          THEN Range(limit[side][p].Orders) \ {r} ELSE {}
              IN \A q \in later \cup left :
                    /\ order[r].Timestamp <= order[q].Timestamp
                    /\ Arrival(r) < Arrival(q)

\* C5: a market buy meets the ask levels in ascending price order and a
\* market sell the bid levels in descending price order: the prices of the
\* returned matches are monotone, and no level with a strictly better price
\* than a matched one is left on the book.
Better(bidSide, a, b) == IF bidSide THEN a > b ELSE a < b

C5_BestPriceFirst ==
    MarketDone =>
        LET side == ~order[call.o].Bid
        IN /\ \A i, j \in 1..Len(matches) :
                 i < j => ~Better(side, matches[j].Price, matches[i].Price)
           /\ \A i \in 1..Len(matches) : \A p \in LevelsOf(side) :
                 ~Better(side, p, matches[i].Price)

\* a sweep that went through two price levels
C5_Witness ==
    /\ MarketDone
    /\ \E i, j \in 1..Len(matches) : matches[i].Price # matches[j].Price

\* the state of one side of the book
SideState(bid) ==
    IF bid THEN <<bids, BidLimits, limit[TRUE]>> ELSE <<asks, AskLimits, limit[FALSE]>>

SideVolume(bid) == IF bid THEN BidTotalVolume ELSE AskTotalVolume

RECURSIVE SizeFilledSum(_)
SizeFilledSum(ms) ==
    IF ms = <<>> THEN 0 ELSE Head(ms).SizeFilled + SizeFilledSum(Tail(ms))

\* C6: a market order of positive size not above the opposite side's total
\* volume returns matches whose SizeFilled sum to its size, ends filled,
\* lowers the opposite side's total volume by its size and leaves its own
\* side as it was.
C6_ExactFill ==
    [][\A bid \in BOOLEAN, size \in MarketSizes, ts \in Times :
          (/\ PlaceMarketOrder(bid, size, ts)
           /\ size > 0
           /\ size <= SideVolume(~bid))
          => /\ call'.err = ""
             /\ SizeFilledSum(matches') = size
             /\ order'[call'.o].Size = 0
             /\ SideVolume(~bid)' = SideVolume(~bid) - size
             /\ SideState(bid)' = SideState(bid)]_vars

\* a market order filled from two resting orders, one of them only in part
C6_Witness ==
    /\ MarketDone
    /\ Len(matches) >= 2
    /\ SideVolume(~order[call.o].Bid) > 0

\* C7: a market order larger than the opposite side's total volume ends in
\* the "not enough volume" failure, returns no match, records no trade and
\* leaves every order, level, index and volume as before.
C7_InsufficientLiquidityAtomic ==
    [][\A bid \in BOOLEAN, size \in MarketSizes, ts \in Times :
          (PlaceMarketOrder(bid, size, ts) /\ size > SideVolume(~bid))
          => /\ call'.err = "not enough volume"
             /\ matches' = <<>>
             /\ Trades' = Trades
             /\ SubSeq(order', 1, Len(order)) = order
             /\ order'[call'.o].Size = size
             /\ UNCHANGED <<limit, asks, bids, AskLimits, BidLimits, Orders>>]_vars

\* a market order refused although part of it could have been matched
C7_Witness ==
    /\ call.op = "PlaceMarketOrder"
    /\ call.err = "not enough volume"
    /\ SideVolume(~order[call.o].Bid) > 0

\* C8: a successful PlaceMarketOrder appends one Trade per returned Match,
\* in Match order, with the Match's price and SizeFilled and the taker's
\* side; no other operation changes the trade history.
C8_MatchToTrade ==
    [][IF call'.op = "PlaceMarketOrder" /\ call'.err = ""
       THEN /\ Len(Trades') = Len(Trades) + Len(matches')
            /\ SubSeq(Trades', 1, Len(Trades)) = Trades
            /\ \A i \in 1..Len(matches') :
                  /\ Trades'[Len(Trades) + i].Price = matches'[i].Price
                  /\ Trades'[Len(Trades) + i].Size = matches'[i].SizeFilled
                  /\ Trades'[Len(Trades) + i].Bid = order'[call'.o].Bid
       ELSE Trades' = Trades]_vars

\* a market order whose two matches were appended to the trade history
C8_Witness ==
    /\ MarketDone
    /\ Len(matches) = 2
    /\ Len(Trades) >= 2
    /\ matches[1].SizeFilled # matches[2].SizeFilled

\* C9: every Match carries the price of the level in which its resting order
\* was resident when the market order arrived.
C9_MakerPrice ==
    [][(call'.op = "PlaceMarketOrder" /\ call'.err = "")
       => \A i \in 1..Len(matches') :
             LET r == Maker(matches'[i], call'.o)
             IN /\ order[r].Limit = matches'[i].Price
                /\ \E k \in 1..Len(limit[order[r].Bid][matches'[i].Price].Orders) :
                      limit[order[r].Bid][matches'[i].Price].Orders[k] = r]_vars

\* a match at a price that differs from its filled size
C9_Witness ==
    /\ MarketDone
    /\ \E i \in 1..Len(matches) : matches[i].Price # matches[i].SizeFilled

\* C10: PlaceLimitOrder, at any price, leaves the trade history, the opposite
\* side and the remaining size of every order as they were; the placed order
\* rests at its price with its size.
C10_NoAutoCross ==
    [][\A price \in Prices, bid \in BOOLEAN, size \in Sizes, ts \in Times :
          PlaceLimitOrder(price, bid, size, ts)
          => /\ Trades' = Trades
             /\ SideState(~bid)' = SideState(~bid)
             /\ \A o \in 1..Len(order) : order'[o].Size = order[o].Size
             /\ Len(order') = Len(order) + 1
             /\ order'[Len(order')].Size = size
             /\ order'[Len(order')].Limit = price
             /\ Len(order') \in Range(limit'[bid][price].Orders)]_vars

\* a limit order resting at a price that crosses the opposite side's best
C10_Witness ==
    /\ call.op = "PlaceLimitOrder"
    /\ LET o == order[call.o]
       IN \E p \in LevelsOf(~o.Bid) : IF o.Bid THEN o.Limit >= p ELSE o.Limit <= p

\* the price map and the level collection of one side
SideMap(bid) == IF bid THEN BidLimits ELSE AskLimits
SideSlice(bid) == IF bid THEN bids ELSE asks

\* ------------------------------------------- callers that check no size
\* NewOrder and PlaceLimitOrder take any float64 as the size; the only check
\* in the repository is the client's, which refuses a size equal to 0 and
\* passes a negative one
AnySizes == (0 - 1)..MaxSize

NextAnySize ==
    \/ \E price \in Prices, bid \in BOOLEAN, size \in AnySizes, ts \in Times :
          PlaceLimitOrder(price, bid, size, ts)
    \/ \E bid \in BOOLEAN, size \in MarketSizes, ts \in Times :
          PlaceMarketOrder(bid, size, ts)
    \/ \E o \in 1..Len(order) : CancelOrder(o)

SpecAnySize == Init /\ [][NextAnySize]_vars

\* --------------------------------------------- a Limit used on its own
\* NewLimit, AddOrder and DeleteOrder are exported and can be called on a
\* level directly.  The level is the object in the ask heap at price 1; the
\* order book around it stays empty
Level == limit[FALSE][1]

\* l.AddOrder(o), o newly built
LimitAddOrder(size, ts) ==
    /\ Len(order) < MaxOrders
    /\ LET o == Len(order) + 1
           a == AddOrder(Level, o, Built(FALSE, size, ts))
       IN /\ limit' = [limit EXCEPT ![FALSE][1] = a.limit]
          /\ order' = a.order
          /\ call' = Call("AddOrder", o, "")
    /\ UNCHANGED <<asks, bids, AskLimits, BidLimits, Orders, Trades, matches>>
    /\ UNCHANGED cvars

\* l.DeleteOrder(o), o any order built so far, resident in the level or not.
\* The calls stop once the cached volume has gone below zero
LimitDeleteOrder(o) ==
    /\ Level.TotalVolume >= 0
    /\ \E d \in DeleteOrder(Level, o, order) :
          /\ limit' = [limit EXCEPT ![FALSE][1] = d.limit]
          /\ order' = d.order
    /\ call' = Call("DeleteOrder", o, "")
    /\ UNCHANGED <<asks, bids, AskLimits, BidLimits, Orders, Trades, matches>>
    /\ UNCHANGED cvars

NextLimit ==
    \/ \E size \in Sizes, ts \in Times : LimitAddOrder(size, ts)
    \/ \E o \in 1..Len(order) : LimitDeleteOrder(o)

SpecLimit == Init /\ [][NextLimit]_vars

\* ------------------------------------ goroutines calling at the same time
\* Each goroutine makes one call at a time.  A call is a sequence of steps;
\* between two steps of one goroutine any other goroutine may take steps.
\* PlaceLimitOrder and PlaceMarketOrder take ob.mu on entry and release it
\* on return (defer ob.mu.Unlock(), also when the call panics); CancelOrder,
\* BidTotalVolume, AskTotalVolume, Asks and Bids take no lock.

\* a Lock that does not wait for the holder to release
LockFree_Always(m) == TRUE

\* ob.mu.Lock() goes through when no goroutine holds the lock
LockFree(m) == m = Nil

\* orders built so far: those in the heap and those of calls waiting at Lock
Issued == Len(order) + Cardinality({t \in Threads : pc[t] \in {"L_lock", "M_lock"}})

\* a mutating call is between its first and its last step
Mutating(t) == pc[t] \in {"L_find", "L_add", "M_check", "M_sweep", "C_store"}

\* the volume queries under way take note of v[side], the side's total volume
\* at the start or at the end of a mutating call
Noted(lc, v) ==
    [u \in Threads |->
        IF pc[u] = "R_loop" THEN [lc[u] EXCEPT !.ok = @ \cup {v[lc[u].bid]}]
        ELSE lc[u]]

Volumes == [b \in BOOLEAN |-> SideVolume(b)]

\* the caller builds the order, NewOrder(bid, size, userID), and calls
\* ob.PlaceLimitOrder(price, o)
LimitCall(t, price, bid, size, ts) ==
    /\ pc[t] = "idle"
    /\ Issued < MaxOrders
    /\ pc' = [pc EXCEPT ![t] = "L_lock"]
    /\ loc' = [loc EXCEPT ![t] = [NoLocals EXCEPT !.bid = bid, !.size = size,
                                                  !.ts = ts, !.limit = price]]
    /\ UNCHANGED <<book, matches, call, mu>>

\* ob.mu.Lock() of PlaceLimitOrder; the order gets its place in the heap
LimitLock(t) ==
    /\ pc[t] = "L_lock"
    /\ LockFree(mu)
    /\ mu' = t
    /\ order' = Append(order, NewOrder(loc[t].bid, loc[t].size, Len(order) + 1, loc[t].ts))
    /\ pc' = [pc EXCEPT ![t] = "L_find"]
    /\ loc' = Noted([loc EXCEPT ![t].o = Len(order) + 1], Volumes)
    /\ UNCHANGED <<limit, asks, bids, AskLimits, BidLimits, Orders, Trades, matches, call>>

\* PlaceLimitOrder, lines 277-293: look the level up, make it if there is none.
\* The level heap has one object per side and price: a new level takes the
\* place of the one evicted before it, so the step waits while that one is
\* still referred to (by an order or by a CancelOrder under way)
LimitFind(t) ==
    /\ pc[t] = "L_find"
    /\ LET o == loc[t].o
           price == loc[t].limit
           side == LimitSide(order[o])
           found == price \in DOMAIN SideMap(side)
       IN /\ ~found =>
                /\ Len(limit[side][price].Orders) = 0
                /\ \A u \in Threads :
                      pc[u] = "C_store" => ~(loc[u].bid = side /\ loc[u].limit = price)
          /\ limit' = IF found THEN limit
                      ELSE [limit EXCEPT ![side][price] = NewLimit(price)]
          /\ bids' = IF side /\ ~found THEN Append(bids, price) ELSE bids
          /\ BidLimits' = IF side /\ ~found THEN MapPut(BidLimits, price, price)
                                            ELSE BidLimits
          /\ asks' = IF ~side /\ ~found THEN Append(asks, price) ELSE asks
          /\ AskLimits' = IF ~side /\ ~found THEN MapPut(AskLimits, price, price)
                                             ELSE AskLimits
    /\ pc' = [pc EXCEPT ![t] = "L_add"]
    /\ UNCHANGED <<order, Orders, Trades, matches, call, mu, loc>>

\* PlaceLimitOrder, lines 302-303 and the deferred Unlock
LimitAdd(t) ==
    /\ pc[t] = "L_add"
    /\ LET o == loc[t].o
           price == loc[t].limit
           side == LimitSide(order[o])
           a == AddOrder(limit[side][price], o, order)
       IN /\ Orders' = MapPut(Orders, order[o].ID, o)
          /\ limit' = [limit EXCEPT ![side][price] = a.limit]
          /\ order' = a.order
          /\ call' = Call("PlaceLimitOrder", o, "")
    /\ matches' = <<>>
    /\ mu' = Nil
    /\ pc' = [pc EXCEPT ![t] = "idle"]
    /\ UNCHANGED <<asks, bids, AskLimits, BidLimits, Trades>>
    /\ loc' = Noted([loc EXCEPT ![t] = NoLocals], Volumes')

\* the caller builds the order and calls ob.PlaceMarketOrder(o)
MarketCall(t, bid, size, ts) ==
    /\ pc[t] = "idle"
    /\ Issued < MaxOrders
    /\ pc' = [pc EXCEPT ![t] = "M_lock"]
    /\ loc' = [loc EXCEPT ![t] = [NoLocals EXCEPT !.bid = bid, !.size = size, !.ts = ts]]
    /\ UNCHANGED <<book, matches, call, mu>>

\* ob.mu.Lock() of PlaceMarketOrder
MarketLock(t) ==
    /\ pc[t] = "M_lock"
    /\ LockFree(mu)
    /\ mu' = t
    /\ order' = Append(order, NewOrder(loc[t].bid, loc[t].size, Len(order) + 1, loc[t].ts))
    /\ pc' = [pc EXCEPT ![t] = "M_check"]
    /\ loc' = Noted([loc EXCEPT ![t].o = Len(order) + 1], Volumes)
    /\ UNCHANGED <<limit, asks, bids, AskLimits, BidLimits, Orders, Trades, matches, call>>

\* PlaceMarketOrder, line 226 / 239: the liquidity check
MarketCheck(t) ==
    /\ pc[t] = "M_check"
    /\ LET o == loc[t].o
       IN IF NotEnoughVolume(order[o].Size, SideVolume(~order[o].Bid))
          THEN \* panic; the deferred Unlock runs
               /\ call' = Call("PlaceMarketOrder", o, "not enough volume")
               /\ matches' = <<>>
               /\ mu' = Nil
               /\ pc' = [pc EXCEPT ![t] = "idle"]
               /\ loc' = Noted([loc EXCEPT ![t] = NoLocals], Volumes)
          ELSE /\ pc' = [pc EXCEPT ![t] = "M_sweep"]
               /\ UNCHANGED <<matches, call, mu, loc>>
    /\ UNCHANGED book

\* PlaceMarketOrder, lines 230-267 (or 243-267) and the deferred Unlock
MarketSweep(t) ==
    /\ pc[t] = "M_sweep"
    /\ LET o == loc[t].o
           bid == order[o].Bid
           side == ~bid
           sorted == IF bid THEN [Ob EXCEPT !.asks = Asks(asks)]
                            ELSE [Ob EXCEPT !.bids = Bids(bids)]
           n == IF bid THEN Len(asks) ELSE Len(bids)
       IN \E s \in Sweep([ob |-> sorted, limit |-> limit, order |-> order,
                          matches |-> <<>>], 1, n, o, side) :
             /\ order' = s.order
             /\ limit' = s.limit
             /\ asks' = Slice(s.ob.asks, s.ob.asksLen)
             /\ bids' = Slice(s.ob.bids, s.ob.bidsLen)
             /\ AskLimits' = s.ob.AskLimits
             /\ BidLimits' = s.ob.BidLimits
             /\ Trades' = AppendTrades(Trades, TradesOf(s.matches, bid))
             /\ UNCHANGED Orders
             /\ IF Len(Trades') = 0
                THEN /\ call' = Call("PlaceMarketOrder", o, "index out of range")
                     /\ matches' = <<>>
                ELSE /\ call' = Call("PlaceMarketOrder", o, "")
                     /\ matches' = s.matches
    /\ mu' = Nil
    /\ pc' = [pc EXCEPT ![t] = "idle"]
    /\ loc' = Noted([loc EXCEPT ![t] = NoLocals], Volumes')

\* CancelOrder, line 331, and DeleteOrder up to the two loads of line 125,
\* l.TotalVolume -= o.Size.  No lock is taken
CancelLoad(t, o) ==
    /\ pc[t] = "idle"
    /\ UNCHANGED <<asks, bids, AskLimits, BidLimits, Orders, Trades, mu>>
    /\ IF order[o].Limit = Nil
       THEN \* limit is nil: l.Orders in DeleteOrder dereferences it
            /\ call' = Call("CancelOrder", o, "nil pointer dereference")
            /\ matches' = <<>>
            /\ UNCHANGED <<order, limit, pc, loc>>
       ELSE LET bid == order[o].Bid
                l == order[o].Limit
            IN /\ limit' = [limit EXCEPT ![bid][l].Orders = DeleteLoop(@, o, 1)]
               /\ order' = [order EXCEPT ![o].Limit = Nil]
               /\ pc' = [pc EXCEPT ![t] = "C_store"]
               /\ loc' = Noted([loc EXCEPT ![t] =
                                  [NoLocals EXCEPT !.o = o, !.bid = bid, !.limit = l,
                                       !.n = limit[bid][l].TotalVolume - order[o].Size]],
                               Volumes)
               /\ UNCHANGED <<matches, call>>

\* the store of line 125, the sort of line 127, and CancelOrder to its end
CancelStore(t) ==
    /\ pc[t] = "C_store"
    /\ LET o == loc[t].o
           bid == loc[t].bid
           l == loc[t].limit
       IN \E s \in SortOrders(limit[bid][l].Orders, order) :
             LET ob == IF Len(s) = 0 THEN clearLimit(bid, l, Ob) ELSE Ob
             IN /\ limit' = [limit EXCEPT ![bid][l].TotalVolume = loc[t].n,
                                          ![bid][l].Orders = s]
                /\ Orders' = MapDelete(Orders, order[o].ID)
                /\ asks' = Slice(ob.asks, ob.asksLen)
                /\ bids' = Slice(ob.bids, ob.bidsLen)
                /\ AskLimits' = ob.AskLimits
                /\ BidLimits' = ob.BidLimits
                /\ call' = Call("CancelOrder", o, "")
    /\ matches' = <<>>
    /\ pc' = [pc EXCEPT ![t] = "idle"]
    /\ UNCHANGED <<order, Trades, mu>>
    /\ loc' = Noted([loc EXCEPT ![t] = NoLocals], Volumes')

\* entry of BidTotalVolume / AskTotalVolume called from outside: totalVolume
\* := 0.0, i := 0.  The query is checked against the volumes noted while it
\* runs if it starts when no mutating call is under way
VolumeCall(t, bid) ==
    /\ pc[t] = "idle"
    /\ pc' = [pc EXCEPT ![t] = "R_loop"]
    /\ loc' = [loc EXCEPT ![t] =
                 [NoLocals EXCEPT !.bid = bid, !.n = 1, !.total = 0,
                                  !.ok = {SideVolume(bid)},
                                  !.strict = \A u \in Threads : ~Mutating(u)]]
    /\ UNCHANGED <<book, matches, call, mu>>

\* one round of the loop of BidTotalVolume / AskTotalVolume, or its return
VolumeStep(t) ==
    /\ pc[t] = "R_loop"
    /\ LET s == SideSlice(loc[t].bid)
           i == loc[t].n
       IN IF i <= Len(s)
          THEN /\ loc' = [loc EXCEPT ![t].total = @ + limit[loc[t].bid][s[i]].TotalVolume,
                                     ![t].n = i + 1]
               /\ UNCHANGED <<pc, call>>
          ELSE /\ call' = Call(IF loc[t].bid THEN "BidTotalVolume" ELSE "AskTotalVolume",
                               Nil, "")
               /\ pc' = [pc EXCEPT ![t] = "idle"]
               /\ loc' = [loc EXCEPT ![t] = NoLocals]
    /\ UNCHANGED <<book, matches, mu>>

\* Bids() / Asks() called from outside: sort the side's slice in place
LevelsCall(t, bid) ==
    /\ pc[t] = "idle"
    /\ bids' = IF bid THEN Bids(bids) ELSE bids
    /\ asks' = IF bid THEN asks ELSE Asks(asks)
    /\ call' = Call(IF bid THEN "Bids" ELSE "Asks", Nil, "")
    /\ UNCHANGED <<order, limit, AskLimits, BidLimits, Orders, Trades, matches, cvars>>

\* the steps of the placement calls of goroutine t
Placement(t) ==
    \/ \E price \in Prices, bid \in BOOLEAN, size \in Sizes, ts \in Times :
          LimitCall(t, price, bid, size, ts)
    \/ LimitLock(t)
    \/ LimitFind(t)
    \/ LimitAdd(t)
    \/ \E bid \in BOOLEAN, size \in MarketSizes, ts \in Times :
          MarketCall(t, bid, size, ts)
    \/ MarketLock(t)
    \/ MarketCheck(t)
    \/ MarketSweep(t)

\* the same on the ask side of the book: asks rest and market buys take them
AskPlacement(t) ==
    \/ \E price \in Prices, size \in Sizes, ts \in Times :
          LimitCall(t, price, FALSE, size, ts)
    \/ LimitLock(t)
    \/ LimitFind(t)
    \/ LimitAdd(t)
    \/ \E size \in MarketSizes, ts \in Times : MarketCall(t, TRUE, size, ts)
    \/ MarketLock(t)
    \/ MarketCheck(t)
    \/ MarketSweep(t)

\* every goroutine places orders
NextPlacements == \E t \in Threads : Placement(t)

SpecPlacements == Init /\ [][NextPlacements]_vars

\* the last goroutine cancels or queries while the others place
Placers == Threads \ {MaxThreads}

NextCancelling ==
    \/ \E t \in Placers : Placement(t)
    \/ \E o \in 1..Len(order) : CancelLoad(MaxThreads, o)
    \/ CancelStore(MaxThreads)

SpecCancelling == Init /\ [][NextCancelling]_vars

NextQuerying ==
    \/ \E t \in Placers : AskPlacement(t)
    \/ VolumeCall(MaxThreads, FALSE)
    \/ VolumeStep(MaxThreads)
    \/ LevelsCall(MaxThreads, FALSE)

SpecQuerying == Init /\ [][NextQuerying]_vars

\* C11: after PlaceLimitOrder(price, o) the order's side has exactly one
\* level at that price, in both the price map and the level collection (a new
\* one only if none existed); the order is the last element of that level's
\* sequence with its back-reference set to the level; the id index maps the
\* order's id to the order; the level's volume has grown by the order's size;
\* every other level of that side is unchanged.
C11_PlaceLimitEffect ==
    [][\A price \in Prices, bid \in BOOLEAN, size \in Sizes, ts \in Times :
          PlaceLimitOrder(price, bid, size, ts)
          => LET o == Len(order) + 1
                 had == price \in DOMAIN SideMap(bid)
                 old == IF had THEN limit[bid][price] ELSE NewLimit(price)
             IN /\ had <=> price \in Range(SideSlice(bid))
                /\ SideSlice(bid)' = IF had THEN SideSlice(bid)
                                            ELSE Append(SideSlice(bid), price)
                /\ Cardinality({i \in 1..Len(SideSlice(bid)') :
                                  SideSlice(bid)'[i] = price}) = 1
                /\ DOMAIN SideMap(bid)' = DOMAIN SideMap(bid) \cup {price}
                /\ SideMap(bid)'[price] = price
                /\ limit'[bid][price].Price = price
                /\ limit'[bid][price].Orders = Append(old.Orders, o)
                /\ order'[o].Limit = price
                /\ Orders'[order'[o].ID] = o
                /\ limit'[bid][price].TotalVolume = old.TotalVolume + size
                /\ \A p \in Prices \ {price} :
                      /\ limit'[bid][p] = limit[bid][p]
                      /\ p \in DOMAIN SideMap(bid)' <=> p \in DOMAIN SideMap(bid)]_vars

\* a limit order joined a level that held an order, next to another level
C11_Witness ==
    /\ call.op = "PlaceLimitOrder"
    /\ LET o == order[call.o]
       IN /\ Len(limit[o.Bid][o.Limit].Orders) >= 2
          /\ LevelsOf(o.Bid) \ {o.Limit} # {}

\* C12: CancelOrder on a resident order removes it from its level and from
\* the id index, clears its back-reference, lowers its side's total volume by
\* its remaining size, evicts its level from the side's price map and level
\* collection exactly when it was the level's last order, and leaves every
\* other order, every other level, the opposite side and the trade history
\* unchanged.
C12_CancelEffect ==
    [][\A o \in 1..Len(order) :
          (CancelOrder(o) /\ order[o].Limit # Nil)
          => LET bid == order[o].Bid
                 l == order[o].Limit
                 last == Len(limit[bid][l].Orders) = 1
             IN /\ call'.err = ""
                /\ Range(limit'[bid][l].Orders) = Range(limit[bid][l].Orders) \ {o}
                /\ Len(limit'[bid][l].Orders) = Len(limit[bid][l].Orders) - 1
                /\ Orders' = MapDelete(Orders, order[o].ID)
                /\ ~Indexed(o)'
                /\ order'[o] = [order[o] EXCEPT !.Limit = Nil]
                /\ SideVolume(bid)' = SideVolume(bid) - order[o].Size
                /\ l \in DOMAIN SideMap(bid)' <=> ~last
                /\ l \in Range(SideSlice(bid)') <=> ~last
                /\ \A q \in (1..Len(order)) \ {o} : order'[q] = order[q]
                /\ \A p \in Prices \ {l} :
                      /\ limit'[bid][p] = limit[bid][p]
                      /\ p \in DOMAIN SideMap(bid)' <=> p \in DOMAIN SideMap(bid)
                      /\ p \in Range(SideSlice(bid)') <=> p \in Range(SideSlice(bid))
                /\ Len(SideSlice(bid)') = Len(SideSlice(bid)) - (IF last THEN 1 ELSE 0)
                /\ SideState(~bid)' = SideState(~bid)
                /\ Trades' = Trades]_vars

\* a cancellation, after a trade against its side, of an order with volume
\* left, on a side that keeps another level
C12_Witness ==
    /\ call.op = "CancelOrder" /\ call.err = ""
    /\ order[call.o].Size > 0
    /\ \E i \in 1..Len(Trades) : Trades[i].Bid # order[call.o].Bid
    /\ LevelsOf(order[call.o].Bid) # {}

\* C13: CancelOrder on an order that is not resident (cancelled before,
\* fully filled, or never placed) ends in the OrderNotFound failure and leaves
\* the book as it was.
C13_CancelNonResident ==
    [][\A o \in 1..Len(order) :
          (CancelOrder(o) /\ order[o].Limit = Nil)
          => /\ call'.err = "OrderNotFound"
             /\ UNCHANGED <<order, limit, asks, bids, AskLimits, BidLimits,
                            Orders, Trades>>]_vars

\* C17: every step leaves the trade history of the state before it as an
\* exact prefix of the trade history after it.
C17_TradesAppendOnly ==
    [][/\ Len(Trades') >= Len(Trades)
       /\ SubSeq(Trades', 1, Len(Trades)) = Trades]_vars

\* a market order added its trades behind those of an earlier one
C17_Witness ==
    /\ MarketDone
    /\ Len(matches) >= 1
    /\ Len(Trades) > Len(matches)

\* a placement call holds the lock and is between its first and last step
InPlacement(t) == pc[t] \in {"L_find", "L_add", "M_check", "M_sweep"}

\* C14: placement calls issued at the same time run one after the other:
\* while one is between its first and its last step it holds the lock, no
\* other placement call is inside its own steps, and no step of another
\* goroutine changes the order book, the trade history or a call's result.
C14_PlacementsSerialized ==
    [][\A t \in Threads :
          InPlacement(t)
          => /\ mu = t
             /\ \A u \in Threads \ {t} : ~InPlacement(u)
             /\ pc'[t] = pc[t] => UNCHANGED <<book, matches, call, mu>>]_vars

\* a market order in the middle of its call, past the liquidity check, while
\* another placement call waits for the lock
C14_Witness ==
    \E t, u \in Threads :
        /\ pc[t] = "M_sweep"
        /\ pc[u] \in {"L_lock", "M_lock"}
        /\ SideVolume(~order[loc[t].o].Bid) > 0

\* C15: whenever no call is under way, after any interleaving of CancelOrder
\* with placement calls, the volumes are conserved as in C1.
C15_CancelKeepsVolumes ==
    (\A t \in Threads : pc[t] = "idle") => C1_VolumeConservation

\* C16: a volume query that starts when no mutating call is under way
\* returns the side's total volume as it was at the start or the end of a
\* mutating call (or at the query's own start), and Asks / Bids called while
\* a mutating call is under way leaves the slices of the book as they are.
C16_QueriesIsolated ==
    [][/\ \A t \in Threads :
             (pc[t] = "R_loop" /\ pc'[t] = "idle" /\ loc[t].strict)
             => loc[t].total \in loc[t].ok
       /\ \A t \in Threads, bid \in BOOLEAN :
             (LevelsCall(t, bid) /\ \E u \in Threads : Mutating(u))
             => UNCHANGED <<asks, bids>>]_vars

\* C18: PlaceLimitOrder with an order of zero or negative size ends in the
\* InvalidOrder failure and puts the order in no level and not in the id
\* index.
C18_NonPositiveRejected ==
    [][\A price \in Prices, bid \in BOOLEAN, size \in AnySizes, ts \in Times :
          (PlaceLimitOrder(price, bid, size, ts) /\ size <= 0)
          => /\ call'.err = "InvalidOrder"
             /\ UNCHANGED <<limit, asks, bids, AskLimits, BidLimits, Orders>>]_vars

\* C19: Limit.DeleteOrder with an order that is not in the level's sequence
\* leaves the sequence and the cached TotalVolume as they were.
C19_DeleteNonResidentNoOp ==
    [][\A o \in 1..Len(order) :
          (LimitDeleteOrder(o) /\ o \notin Range(Level.Orders))
          => /\ limit'[FALSE][1].Orders = Level.Orders
             /\ limit'[FALSE][1].TotalVolume = Level.TotalVolume]_vars

\* C20: the orders of every level appear in the level's sequence in the
\* order in which they were added to it, also after Limit.DeleteOrder has
\* removed an order from the level.
C20_RemovalKeepsArrivalOrder ==
    \A b \in BOOLEAN : \A p \in LevelsOf(b) :
        \A i, j \in 1..Len(limit[b][p].Orders) :
            i < j => Arrival(limit[b][p].Orders[i]) < Arrival(limit[b][p].Orders[j])

\* the matches ms of a market order o (taker side bid, remaining size r before
\* the first of them), one after the other, against the orders before (pre)
\* and after (post) the call
RECURSIVE Pairwise(_, _, _, _, _, _)
Pairwise(ms, r, pre, post, o, bid) ==
    IF ms = <<>> THEN post[o].Size = r
    ELSE LET m == Head(ms)
             res == IF bid THEN m.Ask ELSE m.Bid
             inc == IF bid THEN m.Bid ELSE m.Ask
         IN /\ inc = o
            /\ res \in DOMAIN pre
            /\ post[m.Bid].Bid
            /\ ~post[m.Ask].Bid
            /\ r > 0
            /\ m.SizeFilled = (IF pre[res].Size < r THEN pre[res].Size ELSE r)
            /\ post[res].Size = pre[res].Size - m.SizeFilled
            /\ post[res].Size >= 0
            /\ r - m.SizeFilled >= 0
            /\ (post[res].Size = 0 \/ r - m.SizeFilled = 0)
            /\ Pairwise(Tail(ms), r - m.SizeFilled, pre, post, o, bid)

\* C21: every Match of a market order fills the smaller of the two remaining
\* sizes taken just before it, both orders lose exactly that much (one of
\* them reaches 0, none goes below), Bid is the bid-side order and Ask the
\* ask-side order, and no Match is made once the incoming order is filled.
C21_PairwiseFill ==
    [][\A bid \in BOOLEAN, size \in MarketSizes, ts \in Times :
          (PlaceMarketOrder(bid, size, ts) /\ call'.err = "")
          => Pairwise(matches', size, order, order', Len(order) + 1, bid)]_vars

\* a market order filled by two resident orders, the second of them in part
C21_Witness ==
    /\ MarketDone
    /\ Len(matches) = 2
    /\ order[call.o].Size = 0
    /\ \E b \in BOOLEAN : \E p \in LevelsOf(b) :
          /\ Maker(matches[2], call.o) \in Range(limit[b][p].Orders)
          /\ order[Maker(matches[2], call.o)].Size > 0

\* C22: no order resident in a price level has remaining size 0, and an order
\* whose remaining size is 0 has no level back-reference.
C22_FilledDoNotRest ==
    /\ \A b \in BOOLEAN : \A p \in LevelsOf(b) :
          \A o \in Range(limit[b][p].Orders) : order[o].Size > 0
    /\ \A o \in 1..Len(order) : order[o].Size = 0 => order[o].Limit = Nil

\* a market order has filled a resident order whose level still holds another
C22_Witness ==
    /\ MarketDone
    /\ \E i \in 1..Len(matches) :
          /\ order[Maker(matches[i], call.o)].Size = 0
          /\ matches[i].Price \in LevelsOf(~order[call.o].Bid)
          /\ limit[~order[call.o].Bid][matches[i].Price].Orders # <<>>

\* ------------------------------------------- the views called between calls
\* one caller that also asks for the sorted levels: ob.Asks() / ob.Bids()
NextViews ==
    \/ Next
    \/ \E t \in Threads, bid \in BOOLEAN : LevelsCall(t, bid)

SpecViews == Init /\ [][NextViews]_vars

\* C23: Asks() returns every ask level once, prices ascending, and Bids()
\* every bid level once, prices descending; the call changes no side's set
\* of levels, no level's orders or volume, no order, and not the other side.
C23_SortedViews ==
    [][\A t \in Threads, bid \in BOOLEAN :
          LevelsCall(t, bid)
          => LET v == IF bid THEN bids' ELSE asks'
             IN /\ \A i, j \in 1..Len(v) :
                      i < j => IF bid THEN limit[bid][v[i]].Price > limit[bid][v[j]].Price
                                      ELSE limit[bid][v[i]].Price < limit[bid][v[j]].Price
                /\ Range(v) = {SideMap(bid)[p] : p \in DOMAIN SideMap(bid)}
                /\ Range(v) = Range(SideSlice(bid))
                /\ Len(v) = Len(SideSlice(bid))
                /\ SideSlice(~bid)' = SideSlice(~bid)
                /\ UNCHANGED <<limit, order, AskLimits, BidLimits, Orders, Trades>>]_vars

\* Bids() has been called on a book with two bid levels and an ask level
C23_Witness ==
    /\ call.op = "Bids"
    /\ Len(bids) = 2
    /\ Len(asks) = 1
    /\ \A p \in Range(bids) : limit[TRUE][p].Orders # <<>>

\* ------------------------------------------------ ids as NewOrder draws them
\* ID: int64(rand.Intn(10000000)): any id of the range may come out, also one
\* that an earlier order had.  The ids drawn for limit orders lie apart from
\* the ids Built gives to market orders
IDs == (MaxOrders + 1)..(MaxOrders + MaxIds)

\* the ids of the orders resting in the book
LiveIds == {order[o].ID : o \in {x \in 1..Len(order) : order[x].Limit # Nil}}

\* PlaceLimitOrder with an order whose id no resting order has
PlaceLimitOrderId(price, bid, size, ts, id) ==
    /\ id \notin LiveIds
    /\ PlaceLimitBuilt(price, Append(order, NewOrder(bid, size, id, ts)))

\* PlaceMarketOrder with an order that passes the liquidity check
PlaceFillableMarketOrder(bid, size, ts) ==
    /\ ~NotEnoughVolume(size, SideVolume(~bid))
    /\ PlaceMarketOrder(bid, size, ts)

NextIds ==
    \/ \E price \in Prices, bid \in BOOLEAN, size \in Sizes, ts \in Times, id \in IDs :
          PlaceLimitOrderId(price, bid, size, ts, id)
    \/ \E bid \in BOOLEAN, size \in MarketSizes, ts \in Times :
          PlaceFillableMarketOrder(bid, size, ts)
    \/ \E o \in 1..Len(order) : CancelOrder(o)

SpecIds == Init /\ [][NextIds]_vars

\* C24: an order that has been cancelled or filled (in SpecIds: every order
\* without a level) is resident in no level, and its id, looked up in the id
\* index, does not lead to an order resting in the book.
C24_RemovedStayRemoved ==
    \A o \in 1..Len(order) :
        order[o].Limit = Nil
        => /\ Residences(o) = {}
           /\ \A id \in DOMAIN Orders :
                 id = order[o].ID => Residences(Orders[id]) = {}

\* the sum of Trade.Size over the trades of ts whose taker was on side bid
RECURSIVE TradedBy(_, _)
TradedBy(ts, bid) ==
    IF ts = <<>> THEN 0
    ELSE (IF Head(ts).Bid = bid THEN Head(ts).Size ELSE 0) + TradedBy(Tail(ts), bid)

\* what is resident on side bid plus what takers of the other side took from it
Ledger(bid) == ResidentVolume(bid, LevelsOf(bid)) + TradedBy(Trades, ~bid)

\* C25: the size of every limit order placed on a side is accounted for by
\* the side's resident volume, the remaining sizes cancelled orders had when
\* cancelled, and the sizes of the trades whose taker was on the other side:
\* a placement adds its size to resident volume plus trades of its side, a
\* cancel takes the order's remaining size from it, a market order leaves the
\* sum as it is, and nothing changes the sum of the other side.
C25_VolumeAccounted ==
    [][/\ \A price \in Prices, bid \in BOOLEAN, size \in Sizes, ts \in Times :
             PlaceLimitOrder(price, bid, size, ts)
             => /\ Ledger(bid)' = Ledger(bid) + size
                /\ Ledger(~bid)' = Ledger(~bid)
       /\ \A o \in 1..Len(order) :
             (CancelOrder(o) /\ call'.err = "")
             => /\ Ledger(order[o].Bid)' = Ledger(order[o].Bid) - order[o].Size
                /\ Ledger(~order[o].Bid)' = Ledger(~order[o].Bid)
       /\ \A bid \in BOOLEAN, size \in MarketSizes, ts \in Times :
             PlaceMarketOrder(bid, size, ts)
             => \A b \in BOOLEAN : Ledger(b)' = Ledger(b)]_vars

\* a side with a resting order filled in part by a market order and with a
\* cancelled order of positive remaining size
C25_Witness ==
    /\ MarketDone
    /\ Len(matches) >= 1
    /\ LET side == ~order[call.o].Bid
       IN /\ ResidentVolume(side, LevelsOf(side)) > 0
          /\ TradedBy(Trades, ~side) > 0
          /\ \E o \in 1..Len(order) :
                /\ o # call.o
                /\ order[o].Bid = side
                /\ order[o].Limit = Nil
                /\ order[o].Size > 0

\* C26: PlaceMarketOrder with an order that passes the liquidity check
\* returns without a fault; with an order of size 0 and an empty trade
\* history it returns no Match, records no Trade and leaves the levels of
\* each side, the orders in them and the id index as they were.
C26_NoMatchCompletes ==
    [][\A bid \in BOOLEAN, size \in MarketSizes, ts \in Times :
          (/\ PlaceMarketOrder(bid, size, ts)
           /\ ~NotEnoughVolume(size, SideVolume(~bid)))
          => /\ call'.err = ""
             /\ (size = 0 /\ Trades = <<>>)
                => /\ matches' = <<>>
                   /\ Trades' = <<>>
                   /\ \A b \in BOOLEAN : Range(SideSlice(b))' = Range(SideSlice(b))
                   /\ UNCHANGED <<limit, AskLimits, BidLimits, Orders>>]_vars

====
